---------------------------- MODULE Spec2Model ----------------------------
(***************************************************************************)
(* Debuginfo type names (rustc_codegen_ssa/src/debuginfo/type_names.rs).   *)
(*                                                                         *)
(* A Rust `String` is a sequence of one-character strings, so ends_with,   *)
(* pop and truncate act on characters as they do in the source.  A panic   *)
(* (bug!, assert!, unwrap on None) is the field `status` of the threaded   *)
(* encoder state: once it is not "ok" every later step is skipped, as      *)
(* unwinding skips the rest of the call.                                   *)
(***************************************************************************)
EXTENDS Integers, Sequences, FiniteSets, TLC

VARIABLES tcx, pc, call, result

vars == <<tcx, pc, call, result>>

(***************************************************************************)
(* Bounds of the model.                                                    *)
(***************************************************************************)
\* longest tuple / parameter list enumerated as an input
MaxTupleLen == 2
\* largest array length enumerated as an input
MaxArrayLen == 1
\* native call-stack depth available to the recursive encoder
StackLimit == 8

(***************************************************************************)
(* Strings.                                                                *)
(***************************************************************************)
Chars(s) == [i \in 1..Len(s) |-> SubSeq(s, i, i)]

ends_with(output, suffix) ==
    /\ Len(output) >= Len(suffix)
    /\ SubSeq(output, Len(output) - Len(suffix) + 1, Len(output)) = suffix

pop(output) == SubSeq(output, 1, Len(output) - 1)

truncate(output, new_len) == SubSeq(output, 1, new_len)

\* Characters of item names in ascending byte order (ASCII).
AsciiOrder == Chars("#$0123456789:ABCDEFGHIJKLMNOPQRSTUVWXYZ_abcdefghijklmnopqrstuvwxyz{}")

ByteOf(c) == CHOOSE i \in 1..Len(AsciiOrder) : AsciiOrder[i] = c

\* `a < b` of two Rust Strings: bytewise lexicographic order.
StringLt(a, b) ==
    \E i \in 1..(Len(a) + 1) :
        /\ i <= Len(b)
        /\ \A j \in 1..(i - 1) : a[j] = b[j]
        /\ (i = Len(a) + 1 \/ ByteOf(a[i]) < ByteOf(b[i]))

RECURSIVE DecimalNat(_)
DecimalNat(n) ==
    IF n < 10 THEN <<SubSeq("0123456789", n + 1, n + 1)>>
    ELSE DecimalNat(n \div 10) \o <<SubSeq("0123456789", (n % 10) + 1, (n % 10) + 1)>>

\* `{}` (Display) of an integer.
Display(n) == IF n < 0 THEN <<"-">> \o DecimalNat(-n) ELSE DecimalNat(n)

RECURSIVE LowerHex(_)
\* `{:x}` of an unsigned integer.
LowerHex(n) ==
    IF n < 16 THEN <<SubSeq("0123456789abcdef", n + 1, n + 1)>>
    ELSE LowerHex(n \div 16) \o <<SubSeq("0123456789abcdef", (n % 16) + 1, (n % 16) + 1)>>

RECURSIVE Pow2(_)
Pow2(n) == IF n = 0 THEN 1 ELSE 2 * Pow2(n - 1)

\* rustc_target::abi::Size::truncate: the low `bits` bits of `value`.
\* mutant: the endpoint is printed as the layout gives it
size_untruncated(bits, value) == value

size_truncate(bits, value) == value % Pow2(bits)

\* mutant: the bits are read as an unsigned value
size_zero_extend(bits, value) == value % Pow2(bits)

\* rustc_target::abi::Size::sign_extend of the low `bits` bits, read as i128.
size_sign_extend(bits, value) ==
    LET v == value % Pow2(bits)
    IN  IF v >= Pow2(bits - 1) THEN v - Pow2(bits) ELSE v

(***************************************************************************)
(* The encoder state threaded through every call: the output buffer, the   *)
(* visited set, the call depth, and whether the call has panicked.         *)
(***************************************************************************)
NewState(output) ==
    [output |-> output, visited |-> {}, depth |-> 0, status |-> "ok", ret |-> FALSE]

\* output.push_str(text) / output.push(ch) / write!(output, ...)
push_str(s, text) ==
    IF s.status # "ok" THEN s ELSE [s EXCEPT !.output = @ \o text]

\* mutant: a best-effort marker is written and the encoding goes on
panic_recovered(s, what) == push_str(s, <<"?">>)

\* bug!(...), a failed assert!, or unwrap() on None
panic(s, what) ==
    IF s.status # "ok" THEN s ELSE [s EXCEPT !.status = what]


(***************************************************************************)
(* The compiler context.  `tcx` (a state variable, fixed after Init) holds *)
(* the target's dialect; the definition tables below are the read-only     *)
(* services the encoder queries.                                           *)
(***************************************************************************)
cpp_like_debuginfo(cx) == cx.is_like_msvc

NoParent == "<none>"

DefIds == {"k", "m", "S", "In", "E0", "E1", "E2", "En", "Ew", "Ed", "Tr", "Item",
           "Z", "B", "Y", "ext", "X", "imp", "f", "g",
           "c0", "c1", "c2", "c3", "c4"}

\* tcx.def_key(def_id): parent, DefPathData and disambiguator.
def_key(def_id) ==
    CASE def_id = "k"    -> [parent |-> NoParent, data |-> "CrateRoot", name |-> "k", disambiguator |-> 0]
      [] def_id = "m"    -> [parent |-> "k", data |-> "TypeNs", name |-> "m", disambiguator |-> 0]
      [] def_id = "S"    -> [parent |-> "m", data |-> "TypeNs", name |-> "S", disambiguator |-> 0]
      [] def_id = "In"   -> [parent |-> "c0", data |-> "TypeNs", name |-> "In", disambiguator |-> 0]
      [] def_id = "E0"   -> [parent |-> "k", data |-> "TypeNs", name |-> "E0", disambiguator |-> 0]
      [] def_id = "E1"   -> [parent |-> "k", data |-> "TypeNs", name |-> "E1", disambiguator |-> 0]
      [] def_id = "E2"   -> [parent |-> "k", data |-> "TypeNs", name |-> "E2", disambiguator |-> 0]
      [] def_id = "En"   -> [parent |-> "m", data |-> "TypeNs", name |-> "En", disambiguator |-> 0]
      [] def_id = "Ew"   -> [parent |-> "k", data |-> "TypeNs", name |-> "Ew", disambiguator |-> 0]
      [] def_id = "Ed"   -> [parent |-> "k", data |-> "TypeNs", name |-> "Ed", disambiguator |-> 0]
      [] def_id = "Tr"   -> [parent |-> "k", data |-> "TypeNs", name |-> "Tr", disambiguator |-> 0]
      [] def_id = "Item" -> [parent |-> "Tr", data |-> "TypeNs", name |-> "Item", disambiguator |-> 0]
      [] def_id = "Z"    -> [parent |-> "k", data |-> "TypeNs", name |-> "Z", disambiguator |-> 0]
      [] def_id = "B"    -> [parent |-> "m", data |-> "TypeNs", name |-> "B", disambiguator |-> 0]
      [] def_id = "Y"    -> [parent |-> "k", data |-> "TypeNs", name |-> "Y", disambiguator |-> 0]
      [] def_id = "ext"  -> [parent |-> "k", data |-> "ForeignMod", name |-> "extern", disambiguator |-> 0]
      [] def_id = "X"    -> [parent |-> "ext", data |-> "TypeNs", name |-> "X", disambiguator |-> 0]
      [] def_id = "imp"  -> [parent |-> "k", data |-> "Impl", name |-> "impl", disambiguator |-> 1]
      [] def_id = "f"    -> [parent |-> "k", data |-> "ValueNs", name |-> "f", disambiguator |-> 0]
      [] def_id = "g"    -> [parent |-> "imp", data |-> "ValueNs", name |-> "g", disambiguator |-> 0]
      [] def_id = "c0"   -> [parent |-> "f", data |-> "ClosureExpr", name |-> "", disambiguator |-> 0]
      [] def_id = "c1"   -> [parent |-> "f", data |-> "ClosureExpr", name |-> "", disambiguator |-> 1]
      [] def_id = "c2"   -> [parent |-> "g", data |-> "ClosureExpr", name |-> "", disambiguator |-> 0]
      [] def_id = "c3"   -> [parent |-> "g", data |-> "ClosureExpr", name |-> "", disambiguator |-> 2]
      [] def_id = "c4"   -> [parent |-> "f", data |-> "ClosureExpr", name |-> "", disambiguator |-> 3]

\* tcx.crate_name(def_id.krate)
crate_name(def_id) == Chars(def_key(def_id).name)

\* tcx.generator_kind(def_id)
generator_kind(def_id) ==
    CASE def_id = "c1" -> "Gen"
      [] def_id = "c2" -> "AsyncBlock"
      [] def_id = "c3" -> "AsyncClosure"
      [] def_id = "c4" -> "AsyncFn"
      [] OTHER -> "None"

\* tcx.typeck_root_def_id(def_id): the enclosing function of a closure.
typeck_root_def_id(def_id) == def_key(def_id).parent

\* tcx.generics_of(def_id): the number of generic parameters it declares.
generics_count(def_id) == IF def_id = "f" THEN 1 ELSE 0

\* AdtDef::is_enum
is_enum(def_id) == def_id \in {"E0", "E1", "E2", "En", "Ew", "Ed"}

\* AdtDef::variants: the names of the declared variants, by index from 1.
variants(def_id) ==
    CASE def_id = "E0" -> <<>>
      [] def_id = "E1" -> <<"A">>
      [] def_id = "E2" -> <<"Never", "Only">>
      [] def_id = "En" -> <<"None", "Some">>
      [] def_id = "Ew" -> <<"Lo", "Hi", "Data">>
      [] def_id = "Ed" -> <<"P", "Q">>

\* tcx.layout_of(ty).variants for an enum: Single {index}, or Multiple with a
\* Niche {dataful_variant} or a Direct tag encoding.  `niche` is the valid
\* range of the dataful variant's largest niche, `tag_bits` the tag's size.
layout_variants(def_id) ==
    CASE def_id = "E0" -> [form |-> "Single", index |-> 1]
      [] def_id = "E1" -> [form |-> "Single", index |-> 1]
      [] def_id = "E2" -> [form |-> "Single", index |-> 2]
      [] def_id = "En" -> [form |-> "Niche", dataful_variant |-> 2, tag_bits |-> 8,
                           niche |-> [start |-> 1, end |-> 255]]
      [] def_id = "Ew" -> [form |-> "Niche", dataful_variant |-> 3, tag_bits |-> 8,
                           niche |-> [start |-> 258, end |-> 511]]
      [] def_id = "Ed" -> [form |-> "Direct"]

(***************************************************************************)
(* Bracket and separator helpers.                                          *)
(***************************************************************************)
\* mutant: the closing bracket is appended without the separating space
push_close_angle_bracket_unspaced(cpp, s) == push_str(s, <<">">>)

push_close_angle_bracket(cpp, s) ==
    LET spaced == IF cpp /\ ends_with(s.output, <<">">>) THEN push_str(s, <<" ">>) ELSE s
    IN  push_str(spaced, <<">">>)

\* mutant: only the `>` is removed, a space before it stays
pop_close_angle_bracket_keep_space(s) ==
    IF s.status # "ok" THEN s
    ELSE IF ~ends_with(s.output, <<">">>) THEN panic(s, "assert")
    ELSE [s EXCEPT !.output = pop(s.output)]

pop_close_angle_bracket(s) ==
    IF s.status # "ok" THEN s
    ELSE IF ~ends_with(s.output, <<">">>) THEN panic(s, "assert")
    ELSE LET popped == pop(s.output)
         IN  [s EXCEPT !.output = IF ends_with(popped, <<" ">>) THEN pop(popped) ELSE popped]

push_arg_separator(cpp, s) ==
    IF cpp THEN push_str(s, <<",">>) ELSE push_str(s, <<",", " ">>)

pop_arg_separator(s) ==
    IF s.status # "ok" THEN s
    ELSE LET trimmed == IF ends_with(s.output, <<" ">>) THEN pop(s.output) ELSE s.output
         IN  IF ~ends_with(trimmed, <<",">>)
             THEN panic([s EXCEPT !.output = trimmed], "assert")
             ELSE [s EXCEPT !.output = pop(trimmed)]

NON_CPP_AUTO_TRAIT_SEPARATOR == <<" ", "+", " ">>

push_auto_trait_separator(cpp, s) ==
    IF cpp THEN push_arg_separator(cpp, s) ELSE push_str(s, NON_CPP_AUTO_TRAIT_SEPARATOR)

pop_auto_trait_separator(s) ==
    IF s.status # "ok" THEN s
    ELSE IF ends_with(s.output, NON_CPP_AUTO_TRAIT_SEPARATOR)
    THEN [s EXCEPT !.output = truncate(@, Len(@) - Len(NON_CPP_AUTO_TRAIT_SEPARATOR))]
    ELSE pop_arg_separator(s)

(***************************************************************************)
(* Item names.                                                             *)
(***************************************************************************)
\* mutant: every kind is labelled as a plain closure
generator_kind_label_closure(kind) == Chars("closure")

generator_kind_label(kind) ==
    CASE kind = "AsyncBlock"   -> Chars("async_block")
      [] kind = "AsyncClosure" -> Chars("async_closure")
      [] kind = "AsyncFn"      -> Chars("async_fn")
      [] kind = "Gen"          -> Chars("generator")
      [] kind = "None"         -> Chars("closure")

push_disambiguated_special_name(label, disambiguator, cpp, s) ==
    IF cpp
    THEN push_str(s, label \o <<"$">> \o Display(disambiguator))
    ELSE push_str(s, <<"{">> \o label \o <<"#">> \o Display(disambiguator) \o <<"}">>)

push_unqualified_item_name(cx, def_id, disambiguated_data, s) ==
    CASE disambiguated_data.data = "CrateRoot" ->
            push_str(s, crate_name(def_id))
      [] disambiguated_data.data = "ClosureExpr" ->
            push_disambiguated_special_name(generator_kind_label(generator_kind(def_id)),
                                            disambiguated_data.disambiguator,
                                            cpp_like_debuginfo(cx), s)
      [] disambiguated_data.data \in {"TypeNs", "ValueNs"} ->
            push_str(s, Chars(disambiguated_data.name))
      [] OTHER ->
            push_disambiguated_special_name(Chars(disambiguated_data.name),
                                            disambiguated_data.disambiguator,
                                            cpp_like_debuginfo(cx), s)

RECURSIVE push_item_name(_, _, _, _)
push_item_name(cx, def_id, qualified, s) ==
    LET key == def_key(def_id)
        prefixed ==
            IF qualified /\ key.parent # NoParent
            THEN push_str(push_item_name(cx, key.parent, TRUE, s), <<":", ":">>)
            ELSE s
    IN  push_unqualified_item_name(cx, def_id, key, prefixed)

(***************************************************************************)
(* Type descriptors (ty::TyKind), generic arguments and constants.         *)
(***************************************************************************)
Bool == [kind |-> "Bool"]
Char == [kind |-> "Char"]
Str == [kind |-> "Str"]
Never == [kind |-> "Never"]
IntTy(name) == [kind |-> "Int", name |-> name]
UintTy(name) == [kind |-> "Uint", name |-> name]
FloatTy(name) == [kind |-> "Float", name |-> name]
Foreign(def_id) == [kind |-> "Foreign", def_id |-> def_id]
Adt(def, substs) == [kind |-> "Adt", def |-> def, substs |-> substs]
Tuple(component_types) == [kind |-> "Tuple", component_types |-> component_types]
RawPtr(inner_type, mutbl) == [kind |-> "RawPtr", inner_type |-> inner_type, mutbl |-> mutbl]
Ref(inner_type, mutbl) == [kind |-> "Ref", inner_type |-> inner_type, mutbl |-> mutbl]
Array(inner_type, len) == [kind |-> "Array", inner_type |-> inner_type, len |-> len]
Slice(inner_type) == [kind |-> "Slice", inner_type |-> inner_type]
Dynamic(trait_data) == [kind |-> "Dynamic", trait_data |-> trait_data]
FnDef(def_id) == [kind |-> "FnDef", def_id |-> def_id]
FnPtr(sig) == [kind |-> "FnPtr", sig |-> sig]
Closure(def_id, substs) == [kind |-> "Closure", def_id |-> def_id, substs |-> substs]
Generator(def_id, substs) == [kind |-> "Generator", def_id |-> def_id, substs |-> substs]
Param(name) == [kind |-> "Param", name |-> name]
Unrepresentable(kind) == [kind |-> kind]

UnrepresentableKinds ==
    {"Error", "Infer", "Placeholder", "Projection", "Bound", "Opaque", "GeneratorWitness"}

Unit == Tuple(<<>>)

is_unit(t) == t.kind = "Tuple" /\ Len(t.component_types) = 0

FnSig(inputs, output, c_variadic, unsafety, abi) ==
    [inputs |-> inputs, output |-> output, c_variadic |-> c_variadic,
     unsafety |-> unsafety, abi |-> abi]

\* The signatures of the function items, late-bound regions erased and opaque
\* return types revealed (ParamEnv::reveal_all): `fn r1() -> impl Copy { r1 }`
\* has the function item type of r1 itself as its output.
fn_sig_of_item(def_id) ==
    CASE def_id = "f"  -> FnSig(<<UintTy("u8")>>, Unit, FALSE, "Normal", "Rust")
      [] def_id = "r1" -> FnSig(<<>>, FnDef("r1"), FALSE, "Normal", "Rust")
      [] def_id = "r2" -> FnSig(<<FnDef("r2"), UintTy("u8")>>, Unit, FALSE, "Normal", "Rust")
      [] def_id = "r3" -> FnSig(<<>>, FnDef("r4"), FALSE, "Normal", "Rust")
      [] def_id = "r4" -> FnSig(<<Bool>>, Tuple(<<FnDef("r3"), Str>>), FALSE, "Unsafe", "Rust")
      [] def_id = "r5" -> FnSig(<<FnDef("r5")>>, FnDef("r5"), FALSE, "Normal", "C")

FnItems == {"f", "r1", "r2", "r3", "r4", "r5"}

\* Ty::fn_sig
fn_sig(t) == IF t.kind = "FnDef" THEN fn_sig_of_item(t.def_id) ELSE t.sig

\* ty::Const: `val` is "Param" (a bare generic parameter) or "Value"; an
\* evaluated constant carries its bits, a constant of any other type the
\* stable hash of its value.
ConstParam(name, ty) == [val |-> "Param", name |-> name, ty |-> ty, bits |-> 0, hash |-> 0]
ConstValue(ty, bits) == [val |-> "Value", name |-> "", ty |-> ty, bits |-> bits, hash |-> 0]
ConstOpaque(ty, hash) == [val |-> "Value", name |-> "", ty |-> ty, bits |-> 0, hash |-> hash]

TypeArg(ty) == [kind |-> "Type", ty |-> ty]
ConstArg(ct) == [kind |-> "Const", ct |-> ct]
LifetimeArg == [kind |-> "Lifetime"]

\* SubstsRef::non_erasable_generics: lifetimes are erased.
non_erasable_generics(substs) == SelectSeq(substs, LAMBDA a : a.kind # "Lifetime")

\* Integer::from_int_ty(..).size() in bits
int_bits(name) ==
    CASE name = "i8" -> 8
      [] name = "i16" -> 16

\* Existential predicates of a trait object.
TraitPred(def_id, substs) == [kind |-> "Trait", def_id |-> def_id, substs |-> substs]
ProjectionPred(item_def_id, ty) == [kind |-> "Projection", item_def_id |-> item_def_id, ty |-> ty]
AutoTraitPred(def_id) == [kind |-> "AutoTrait", def_id |-> def_id]

\* List<Binder<ExistentialPredicate>>::principal
principal(trait_data) ==
    IF Len(trait_data) > 0 /\ trait_data[1].kind = "Trait" THEN <<trait_data[1]>> ELSE <<>>

projection_bounds(trait_data) == SelectSeq(trait_data, LAMBDA p : p.kind = "Projection")

auto_traits(trait_data) == SelectSeq(trait_data, LAMBDA p : p.kind = "AutoTrait")

\* mutant: the names are left in the order the predicate list gave them
sort_skipped(names) == names

RECURSIVE sort_unstable(_)
\* slice::sort_unstable on Strings (the names are pairwise distinct)
sort_unstable(names) ==
    IF Len(names) = 0 THEN <<>>
    ELSE LET least == CHOOSE i \in 1..Len(names) :
                         \A j \in 1..Len(names) : j = i \/ ~StringLt(names[j], names[i])
             rest == [k \in 1..(Len(names) - 1) |-> IF k < least THEN names[k] ELSE names[k + 1]]
         IN  <<names[least]>> \o sort_unstable(rest)

(***************************************************************************)
(* The encoder.                                                            *)
(***************************************************************************)
push_const_param(cx, ct, s) ==
    IF ct.val = "Param" THEN push_str(s, Chars(ct.name))
    ELSE CASE ct.ty.kind = "Int" ->
                push_str(s, Display(size_sign_extend(int_bits(ct.ty.name), ct.bits)))
           [] ct.ty.kind = "Uint" ->
                push_str(s, Display(ct.bits))
           [] ct.ty.kind = "Bool" ->
                push_str(s, IF ct.bits # 0 THEN Chars("true") ELSE Chars("false"))
           [] OTHER ->
                IF cpp_like_debuginfo(cx)
                THEN push_str(s, Chars("CONST$") \o LowerHex(ct.hash))
                ELSE push_str(s, Chars("{CONST#") \o LowerHex(ct.hash) \o Chars("}"))

(***************************************************************************)
(* The mutually recursive functions call each other through one recursive  *)
(* operator, Call, which dispatches on the callee's name; its definition    *)
(* follows the bodies.  push_generic_params_internal returns its bool in    *)
(* the field `ret` of the state.                                            *)
(***************************************************************************)
RECURSIVE Call(_, _, _)

push_debuginfo_type_name(cx, t, qualified, s) ==
    Call(cx, [fn |-> "push_debuginfo_type_name", t |-> t, qualified |-> qualified], s)

push_generic_params_internal(cx, substs, s) ==
    Call(cx, [fn |-> "push_generic_params_internal", substs |-> substs], s)

\* the loop of push_generic_params_internal over substs.non_erasable_generics()
push_type_parameters(cx, params, s) ==
    Call(cx, [fn |-> "push_type_parameters", params |-> params], s)

\* the loops over a tuple's components and over a signature's inputs
push_component_types(cx, component_types, s) ==
    Call(cx, [fn |-> "push_component_types", component_types |-> component_types], s)

\* the loop of the Dynamic arm over the projection bounds
push_projection_bounds(cx, bounds, s) ==
    Call(cx, [fn |-> "push_projection_bounds", bounds |-> bounds], s)

\* The statements after a call run only if the call returned: a panic unwinds
\* through every caller.
Then(s, rest) == IF s.status = "ok" THEN rest ELSE s

TypeParametersLoop(cx, params, s) ==
    IF Len(params) = 0 THEN s
    ELSE LET type_parameter == Head(params)
             pushed == IF type_parameter.kind = "Type"
                       THEN push_debuginfo_type_name(cx, type_parameter.ty, TRUE, s)
                       ELSE IF type_parameter.kind = "Const"
                       THEN push_const_param(cx, type_parameter.ct, s)
                       ELSE panic(s, "bug")
         IN  Then(pushed,
                  push_type_parameters(cx, Tail(params),
                                       push_arg_separator(cpp_like_debuginfo(cx), pushed)))

\* mutant: the list is opened and closed even when no argument is written
GenericParamsInternal_unguarded(cx, substs, s) ==
    IF s.status # "ok" THEN s
    ELSE LET listed == push_type_parameters(cx, non_erasable_generics(substs),
                                            push_str(s, <<"<">>))
         IN  Then(listed,
                  [push_close_angle_bracket(cpp_like_debuginfo(cx), pop_arg_separator(listed))
                      EXCEPT !.ret = TRUE])

GenericParamsInternal(cx, substs, s) ==
    IF s.status # "ok" THEN s
    ELSE IF Len(non_erasable_generics(substs)) = 0 THEN [s EXCEPT !.ret = FALSE]
    ELSE LET listed == push_type_parameters(cx, non_erasable_generics(substs),
                                            push_str(s, <<"<">>))
         IN  Then(listed,
                  [push_close_angle_bracket(cpp_like_debuginfo(cx), pop_arg_separator(listed))
                      EXCEPT !.ret = TRUE])

msvc_enum_fallback(cx, ty, def, substs, s) ==
    LET layout == layout_variants(def)
        named == push_item_name(cx, def, TRUE, push_str(s, Chars("enum$<")))
        params == push_generic_params_internal(cx, substs, named)
        described ==
            IF layout.form = "Niche"
            THEN LET min == size_truncate(layout.tag_bits, layout.niche.start)
                     max == size_truncate(layout.tag_bits, layout.niche.end)
                     dataful_variant_name == Chars(variants(def)[layout.dataful_variant])
                 IN  push_str(params, Chars(", ") \o Display(min) \o Chars(", ")
                                      \o Display(max) \o Chars(", ") \o dataful_variant_name)
            ELSE IF layout.form = "Single"
            THEN IF Len(variants(def)) # 0
                 THEN push_str(params, Chars(", ") \o Chars(variants(def)[layout.index]))
                 ELSE params
            ELSE params
    IN  Then(params, push_close_angle_bracket(TRUE, described))

AdtArm(cx, t, qualified, s) ==
    IF is_enum(t.def) /\ cpp_like_debuginfo(cx)
    THEN msvc_enum_fallback(cx, t, t.def, t.substs, s)
    ELSE push_generic_params_internal(cx, t.substs,
                                      push_item_name(cx, t.def, qualified, s))

ComponentTypesLoop(cx, component_types, s) ==
    IF Len(component_types) = 0 THEN s
    ELSE LET pushed == push_debuginfo_type_name(cx, Head(component_types), TRUE, s)
         IN  Then(pushed,
                  push_component_types(cx, Tail(component_types),
                                       push_arg_separator(cpp_like_debuginfo(cx), pushed)))

TupleArm(cx, t, qualified, s) ==
    LET cpp == cpp_like_debuginfo(cx)
        opened == IF cpp THEN push_str(s, Chars("tuple$<")) ELSE push_str(s, <<"(">>)
        listed == push_component_types(cx, t.component_types, opened)
        trimmed == IF Len(t.component_types) # 0 THEN pop_arg_separator(listed) ELSE listed
    IN  Then(listed,
             IF cpp THEN push_close_angle_bracket(cpp, trimmed) ELSE push_str(trimmed, <<")">>))

RawPtrArm(cx, t, qualified, s) ==
    LET cpp == cpp_like_debuginfo(cx)
        opened == IF cpp
                  THEN IF t.mutbl = "Not" THEN push_str(s, Chars("ptr_const$<"))
                                          ELSE push_str(s, Chars("ptr_mut$<"))
                  ELSE IF t.mutbl = "Not" THEN push_str(s, Chars("*const "))
                                          ELSE push_str(s, Chars("*mut "))
        inner == push_debuginfo_type_name(cx, t.inner_type, qualified, opened)
    IN  Then(inner, IF cpp THEN push_close_angle_bracket(cpp, inner) ELSE inner)

\* mutant: only a slice referent is recognised, a str referent is wrapped
is_slice_only(inner_type) == inner_type.kind = "Slice"

\* matches!(*inner_type.kind(), ty::Slice(_) | ty::Str)
is_slice_or_str(inner_type) == inner_type.kind \in {"Slice", "Str"}

\* mutant: the referent is encoded fully qualified whatever the caller asked for
RefArm_qualified_referent(cx, t, qualified, s) ==
    LET cpp == cpp_like_debuginfo(cx)
        opened == IF ~cpp
                  THEN push_str(s, IF t.mutbl = "Not" THEN Chars("&") ELSE Chars("&mut "))
                  ELSE IF ~is_slice_or_str(t.inner_type)
                  THEN IF t.mutbl = "Not" THEN push_str(s, Chars("ref$<"))
                                          ELSE push_str(s, Chars("ref_mut$<"))
                  ELSE s
        inner == push_debuginfo_type_name(cx, t.inner_type, TRUE, opened)
    IN  Then(inner,
             IF cpp /\ ~is_slice_or_str(t.inner_type)
             THEN push_close_angle_bracket(cpp, inner) ELSE inner)

RefArm(cx, t, qualified, s) ==
    LET cpp == cpp_like_debuginfo(cx)
        opened == IF ~cpp
                  THEN push_str(s, IF t.mutbl = "Not" THEN Chars("&") ELSE Chars("&mut "))
                  ELSE IF ~is_slice_or_str(t.inner_type)
                  THEN IF t.mutbl = "Not" THEN push_str(s, Chars("ref$<"))
                                          ELSE push_str(s, Chars("ref_mut$<"))
                  ELSE s
        inner == push_debuginfo_type_name(cx, t.inner_type, qualified, opened)
    IN  Then(inner,
             IF cpp /\ ~is_slice_or_str(t.inner_type)
             THEN push_close_angle_bracket(cpp, inner) ELSE inner)

ArrayArm(cx, t, qualified, s) ==
    LET cpp == cpp_like_debuginfo(cx)
        len == IF t.len.val = "Param" THEN Chars(t.len.name) ELSE Display(t.len.bits)
        opened == IF cpp THEN push_str(s, Chars("array$<")) ELSE push_str(s, <<"[">>)
        inner == push_debuginfo_type_name(cx, t.inner_type, TRUE, opened)
    IN  Then(inner,
             IF cpp THEN push_str(inner, <<",">> \o len \o <<">">>)
                    ELSE push_str(inner, <<";", " ">> \o len \o <<"]">>))

SliceArm(cx, t, qualified, s) ==
    LET cpp == cpp_like_debuginfo(cx)
        opened == IF cpp THEN push_str(s, Chars("slice$<")) ELSE push_str(s, <<"[">>)
        inner == push_debuginfo_type_name(cx, t.inner_type, TRUE, opened)
    IN  Then(inner, IF cpp THEN push_close_angle_bracket(cpp, inner) ELSE push_str(inner, <<"]">>))

ProjectionBoundsLoop(cx, bounds, s) ==
    IF Len(bounds) = 0 THEN s
    ELSE LET cpp == cpp_like_debuginfo(cx)
             bound == Head(bounds)
             separated == push_arg_separator(cpp, s)
             named ==
                IF cpp
                THEN push_arg_separator(cpp,
                        push_item_name(cx, bound.item_def_id, FALSE,
                                       push_str(separated, Chars("assoc$<"))))
                ELSE push_str(push_item_name(cx, bound.item_def_id, FALSE, separated), <<"=">>)
             typed == push_debuginfo_type_name(cx, bound.ty, TRUE, named)
         IN  Then(typed,
                  push_projection_bounds(cx, Tail(bounds),
                        IF cpp THEN push_close_angle_bracket(cpp, typed) ELSE typed))

\* the body of `if let Some(principal) = trait_data.principal()`
DynamicPrincipal(cx, t, qualified, s) ==
    LET cpp == cpp_like_debuginfo(cx)
        the_principal == principal(t.trait_data)[1]
        named == push_item_name(cx, the_principal.def_id, qualified, s)
        params == push_generic_params_internal(cx, the_principal.substs, named)
        principal_has_generic_params == params.ret
        bounds == projection_bounds(t.trait_data)
        reopened == IF principal_has_generic_params
                    THEN pop_close_angle_bracket(params)
                    ELSE params
        bounded == push_projection_bounds(cx, bounds, reopened)
        projected == IF Len(bounds) # 0
                     THEN Then(bounded, push_close_angle_bracket(cpp, bounded))
                     ELSE params
    IN  Then(params,
             IF Len(auto_traits(t.trait_data)) # 0
             THEN push_auto_trait_separator(cpp, projected)
             ELSE projected)

\* the qualified names of the auto traits, each built in a String of its own
auto_trait_names(cx, traits) ==
    [i \in 1..Len(traits) |-> push_item_name(cx, traits[i].def_id, TRUE, NewState(<<>>)).output]

RECURSIVE push_auto_traits(_, _, _)
\* the loop of the Dynamic arm over the sorted auto trait names
push_auto_traits(cx, names, s) ==
    IF Len(names) = 0 THEN s
    ELSE push_auto_traits(cx, Tail(names),
                          push_auto_trait_separator(cpp_like_debuginfo(cx),
                                                    push_str(s, Head(names))))

\* mutant: parentheses whenever the predicate list has more than one entry
has_enclosing_parens_unless_alone(cpp, trait_data) == ~cpp /\ Len(trait_data) > 1

has_enclosing_parens(cpp, trait_data) ==
    ~cpp /\ Len(trait_data) > 1 /\ Len(auto_traits(trait_data)) # 0

DynamicArm(cx, t, qualified, s) ==
    LET cpp == cpp_like_debuginfo(cx)
        traits == auto_traits(t.trait_data)
        opened == IF cpp THEN push_str(s, Chars("dyn$<"))
                  ELSE IF has_enclosing_parens(cpp, t.trait_data) THEN push_str(s, Chars("(dyn "))
                  ELSE push_str(s, Chars("dyn "))
        with_principal == IF Len(principal(t.trait_data)) # 0
                          THEN DynamicPrincipal(cx, t, qualified, opened)
                          ELSE opened
        with_autos ==
            IF Len(traits) # 0
            THEN pop_auto_trait_separator(
                    push_auto_traits(cx, sort_unstable(auto_trait_names(cx, traits)),
                                     with_principal))
            ELSE with_principal
    IN  Then(with_principal,
             IF cpp THEN push_close_angle_bracket(cpp, with_autos)
             ELSE IF has_enclosing_parens(cpp, t.trait_data) THEN push_str(with_autos, <<")">>)
             ELSE with_autos)

RecursionPlaceholder(cpp) ==
    IF cpp THEN Chars("recursive_type$") ELSE Chars("<recursive_type>")

\* Unsafety::prefix_str
unsafety_prefix_str(unsafety) == IF unsafety = "Unsafe" THEN Chars("unsafe ") ELSE <<>>

\* the FnDef | FnPtr arm after the visited check
FnSignature(cx, t, s) ==
    LET cpp == cpp_like_debuginfo(cx)
        sig == fn_sig(t)
        returned == IF ~cpp THEN s
                    ELSE IF is_unit(sig.output) THEN push_str(s, Chars("void"))
                    ELSE push_debuginfo_type_name(cx, sig.output, TRUE, s)
        head ==
            IF cpp
            THEN push_str(returned, Chars(" (*)("))
            ELSE push_str(s, unsafety_prefix_str(sig.unsafety)
                             \o (IF sig.abi # "Rust"
                                 THEN Chars("extern ") \o <<"\"">> \o Chars(sig.abi)
                                      \o <<"\"", " ">>
                                 ELSE <<>>)
                             \o Chars("fn("))
        listed == push_component_types(cx, sig.inputs, head)
        inputs == IF Len(sig.inputs) # 0 THEN pop_arg_separator(listed) ELSE listed
        variadic == IF sig.c_variadic
                    THEN IF Len(sig.inputs) # 0 THEN push_str(inputs, Chars(", ..."))
                                                ELSE push_str(inputs, Chars("..."))
                    ELSE inputs
        closed == push_str(variadic, <<")">>)
    IN  Then(returned,
             Then(listed,
                  IF ~cpp /\ ~is_unit(sig.output)
                  THEN push_debuginfo_type_name(cx, sig.output, TRUE,
                                                push_str(closed, Chars(" -> ")))
                  ELSE closed))

\* mutant: the signature is encoded without consulting the visited set
FnArm_unguarded(cx, t, qualified, s) == FnSignature(cx, t, s)

\* mutant: the type stays in the visited set when the arm returns
FnArm_unremoved(cx, t, qualified, s) ==
    IF t \in s.visited
    THEN push_str(s, RecursionPlaceholder(cpp_like_debuginfo(cx)))
    ELSE FnSignature(cx, t, [s EXCEPT !.visited = @ \cup {t}])

FnArm(cx, t, qualified, s) ==
    IF t \in s.visited
    THEN push_str(s, RecursionPlaceholder(cpp_like_debuginfo(cx)))
    ELSE LET body == FnSignature(cx, t, [s EXCEPT !.visited = @ \cup {t}])
         IN  Then(body, [body EXCEPT !.visited = @ \ {t}])

ClosureArm(cx, t, qualified, s) ==
    LET key == def_key(t.def_id)
        prefixed == IF qualified
                    THEN push_str(push_item_name(cx, key.parent, TRUE, s), <<":", ":">>)
                    ELSE s
        label == generator_kind_label(generator_kind(t.def_id)) \o Chars("_env")
        named == push_disambiguated_special_name(label, key.disambiguator,
                                                 cpp_like_debuginfo(cx), prefixed)
        enclosing_fn_def_id == typeck_root_def_id(t.def_id)
        generics == generics_count(enclosing_fn_def_id)
        substs == SubSeq(t.substs, 1, generics)
    IN  push_generic_params_internal(cx, substs, named)

\* the match over t.kind()
TypeNameArms(cx, t, qualified, s) ==
    CASE t.kind = "Bool" -> push_str(s, Chars("bool"))
      [] t.kind = "Char" -> push_str(s, Chars("char"))
      [] t.kind = "Str" -> push_str(s, Chars("str"))
      [] t.kind = "Never" ->
            IF cpp_like_debuginfo(cx) THEN push_str(s, Chars("never$")) ELSE push_str(s, <<"!">>)
      [] t.kind \in {"Int", "Uint", "Float"} -> push_str(s, Chars(t.name))
      [] t.kind = "Foreign" -> push_item_name(cx, t.def_id, qualified, s)
      [] t.kind = "Adt" -> AdtArm(cx, t, qualified, s)
      [] t.kind = "Tuple" -> TupleArm(cx, t, qualified, s)
      [] t.kind = "RawPtr" -> RawPtrArm(cx, t, qualified, s)
      [] t.kind = "Ref" -> RefArm(cx, t, qualified, s)
      [] t.kind = "Array" -> ArrayArm(cx, t, qualified, s)
      [] t.kind = "Slice" -> SliceArm(cx, t, qualified, s)
      [] t.kind = "Dynamic" -> DynamicArm(cx, t, qualified, s)
      [] t.kind \in {"FnDef", "FnPtr"} -> FnArm(cx, t, qualified, s)
      [] t.kind \in {"Closure", "Generator"} -> ClosureArm(cx, t, qualified, s)
      [] t.kind = "Param" -> push_str(s, Chars(t.name))
      [] t.kind \in UnrepresentableKinds -> panic(s, "bug")

\* A call occupies one frame of the native stack for its duration; a call with
\* no frame left ends the process (stack overflow).
TypeNameCall(cx, t, qualified, s) ==
    IF s.status # "ok" THEN s
    ELSE IF s.depth >= StackLimit THEN panic(s, "stack_overflow")
    ELSE [TypeNameArms(cx, t, qualified, [s EXCEPT !.depth = @ + 1]) EXCEPT !.depth = s.depth]

\* mutant: the name of the vtable's type gets the suffix of the vtable itself
vtable_suffix_of_variable(cpp, kind) ==
    IF cpp THEN Chars("::vtable$") ELSE Chars("::{vtable}")

\* let suffix = match (cpp_like_debuginfo, kind)
vtable_suffix(cpp, kind) ==
    CASE cpp /\ kind = "GlobalVariable" -> Chars("::vtable$")
      [] ~cpp /\ kind = "GlobalVariable" -> Chars("::{vtable}")
      [] cpp /\ kind = "Type" -> Chars("::vtable_type$")
      [] ~cpp /\ kind = "Type" -> Chars("::{vtable_type}")

\* the body of compute_debuginfo_vtable_name, on its fresh String and visited set
VtableName(cx, t, trait_ref, kind, s) ==
    LET cpp == cpp_like_debuginfo(cx)
        opened == IF cpp THEN push_str(s, Chars("impl$<")) ELSE push_str(s, <<"<">>)
        typed == push_debuginfo_type_name(cx, t, TRUE, opened)
        separated == IF cpp THEN push_str(typed, Chars(", ")) ELSE push_str(typed, Chars(" as "))
        traited ==
            IF Len(trait_ref) # 0
            THEN push_generic_params_internal(cx, trait_ref[1].substs,
                    [push_item_name(cx, trait_ref[1].def_id, TRUE, separated)
                        EXCEPT !.visited = {}])
            ELSE push_str(separated, <<"_">>)
        closed == push_close_angle_bracket(cpp, traited)
    IN  Then(typed, Then(traited, push_str(closed, vtable_suffix(cpp, kind))))

Call(cx, job, s) ==
    CASE job.fn = "push_debuginfo_type_name" -> TypeNameCall(cx, job.t, job.qualified, s)
      [] job.fn = "push_generic_params_internal" -> GenericParamsInternal(cx, job.substs, s)
      [] job.fn = "push_type_parameters" -> TypeParametersLoop(cx, job.params, s)
      [] job.fn = "push_component_types" -> ComponentTypesLoop(cx, job.component_types, s)
      [] job.fn = "push_projection_bounds" -> ProjectionBoundsLoop(cx, job.bounds, s)
      [] job.fn = "compute_debuginfo_vtable_name" ->
            VtableName(cx, job.t, job.trait_ref, job.kind, s)

(***************************************************************************)
(* The public entry points.  A call that panics returns no string.         *)
(***************************************************************************)
NoString == <<"<no value: the call panicked>">>

Returned(s) ==
    [status |-> s.status, value |-> IF s.status = "ok" THEN s.output ELSE NoString]

compute_debuginfo_type_name(cx, t, qualified) ==
    Returned(push_debuginfo_type_name(cx, t, qualified, NewState(<<>>)))

push_generic_params(cx, substs, output) ==
    Returned(push_generic_params_internal(cx, substs, NewState(output)))

compute_debuginfo_vtable_name(cx, t, trait_ref, kind) ==
    Returned(Call(cx, [fn |-> "compute_debuginfo_vtable_name", t |-> t,
                       trait_ref |-> trait_ref, kind |-> kind], NewState(<<>>)))

(***************************************************************************)
(* The inputs a caller may pass: type descriptors up to three levels deep, *)
(* substitution lists, trait references.                                   *)
(***************************************************************************)
SeqsUpTo(S, n) == UNION {[1..k -> S] : k \in 0..n}

Permutations3(S) ==
    {q \in SeqsUpTo(S, Cardinality(S)) : \A i, j \in 1..Len(q) : i # j => q[i] # q[j]}

Primitives ==
    {Bool, Char, Str, Never, IntTy("i32"), UintTy("u8"), FloatTy("f64"), Param("T")}

Enums == {"E0", "E1", "E2", "En", "Ew", "Ed"}

LeafTypes ==
    Primitives
    \cup {Foreign("X"), Adt("S", <<>>), Adt("In", <<>>), Unit}
    \cup {Adt(e, <<>>) : e \in Enums}
    \cup {FnDef(d) : d \in FnItems}
    \cup {Unrepresentable(k) : k \in UnrepresentableKinds}

\* the types nested inside the first level of composites
CoreTypes ==
    {UintTy("u8"), Str, Adt("S", <<>>), Slice(UintTy("u8")), FnDef("r1"),
     Unrepresentable("Infer")}

Mutabilities == {"Not", "Mut"}

ArrayLens ==
    {ConstValue(UintTy("usize"), n) : n \in 0..MaxArrayLen}
    \cup {ConstParam("N", UintTy("usize"))}

GenericArgs ==
    {TypeArg(UintTy("u8")), TypeArg(Adt("S", <<TypeArg(Str)>>)), LifetimeArg,
     ConstArg(ConstValue(IntTy("i8"), 255)), ConstArg(ConstValue(UintTy("u8"), 200)),
     ConstArg(ConstValue(Bool, 1)), ConstArg(ConstParam("N", UintTy("usize"))),
     ConstArg(ConstOpaque(Adt("S", <<>>), 2748))}

SubstsOf(args) == SeqsUpTo(args, 2)

AutoTraitLists == {[i \in 1..Len(q) |-> AutoTraitPred(q[i])] : q \in Permutations3({"Z", "B", "Y"})}

Principals(args) ==
    {<<>>} \cup {<<TraitPred("Tr", substs)>> : substs \in {<<>>} \cup {<<TypeArg(a)>> : a \in args}}

ProjectionLists(tys) ==
    {<<>>} \cup {<<ProjectionPred("Item", ty)>> : ty \in tys}
    \cup {<<ProjectionPred("Item", ty), ProjectionPred("Item", UintTy("u8"))>> : ty \in tys}

\* Existential predicate lists: a projection bound needs a principal trait, and
\* a trait object names at least one trait.
TraitDatas(args, tys, autos) ==
    {p \o b \o a : p \in Principals(args), b \in ProjectionLists(tys), a \in autos}
    \ ({<<>>} \cup {b \o a : b \in ProjectionLists(tys) \ {<<>>}, a \in autos})

FnSigs(inputs, outputs) ==
    {FnSig(i, o, v, m[1], m[2]) :
        i \in SeqsUpTo(inputs, MaxTupleLen), o \in outputs, v \in BOOLEAN,
        m \in {<<"Normal", "Rust">>, <<"Unsafe", "C">>}}

ClosureDefs == {"c0", "c1", "c2", "c3", "c4"}

\* the substs of a closure: the enclosing function's, then the closure's own
\* (kind, signature, upvars)
ClosureTypes(parents) ==
    {IF t[1] = "c1" THEN Generator(t[1], t[2]) ELSE Closure(t[1], t[2]) :
        t \in {<<c, IF generics_count(typeck_root_def_id(c)) = 1
                    THEN <<TypeArg(p), TypeArg(IntTy("i8")), TypeArg(Unit)>>
                    ELSE <<TypeArg(IntTy("i8")), TypeArg(Unit)>>>> :
               c \in ClosureDefs, p \in parents}}

\* every single-level composite over the given children
Composites(children) ==
    {Tuple(<<c>>) : c \in children}
    \cup {Tuple(<<c, UintTy("u8")>>) : c \in children}
    \cup {Tuple(<<Str, c>>) : c \in children}
    \cup {RawPtr(c, m) : c \in children, m \in Mutabilities}
    \cup {Ref(c, m) : c \in children, m \in Mutabilities}
    \cup {Array(c, n) : c \in children, n \in ArrayLens}
    \cup {Slice(c) : c \in children}
    \cup {Adt("S", <<TypeArg(c)>>) : c \in children}
    \cup {Adt(e, <<TypeArg(c)>>) : c \in children, e \in Enums}
    \cup {Dynamic(d) : d \in TraitDatas(children, children,
                                        {<<>>, <<AutoTraitPred("Z")>>})}
    \cup {FnPtr(FnSig(<<c>>, Unit, FALSE, "Normal", "Rust")) : c \in children}
    \cup {FnPtr(FnSig(<<>>, c, FALSE, "Normal", "Rust")) : c \in children}
    \cup ClosureTypes(children)

TupleTypes == {UintTy("u8"), Adt("S", <<>>), Slice(UintTy("u8")), Unrepresentable("Infer")}

\* function types that occur twice side by side in one larger type
SiblingFnTypes ==
    {FnDef("f"), FnDef("r1"), FnPtr(FnSig(<<>>, UintTy("u8"), FALSE, "Normal", "Rust"))}

SiblingTypes ==
    {Adt("S", <<TypeArg(a), TypeArg(b)>>) : a, b \in SiblingFnTypes}
    \cup {Tuple(<<a, a>>) : a \in SiblingFnTypes}

Level1 ==
    LeafTypes
    \cup Composites(CoreTypes)
    \cup {Tuple(c) : c \in SeqsUpTo(TupleTypes, MaxTupleLen)}
    \cup SiblingTypes
    \cup {Adt("S", substs) : substs \in SubstsOf(GenericArgs)}
    \cup {Dynamic(d) : d \in TraitDatas({UintTy("u8")}, {UintTy("u8")}, AutoTraitLists)}
    \cup {FnPtr(sig) : sig \in FnSigs({UintTy("u8"), Adt("S", <<>>)}, {Unit, UintTy("u8")})}

\* the composites nested inside the second level
MidTypes ==
    {Unit, Tuple(<<UintTy("u8"), Str>>), Ref(Slice(UintTy("u8")), "Not"),
     RawPtr(Str, "Mut"), Ref(Adt("S", <<>>), "Mut"),
     Array(UintTy("u8"), ConstValue(UintTy("usize"), 1)), Slice(Adt("S", <<>>)),
     Adt("S", <<TypeArg(UintTy("u8")), LifetimeArg>>),
     Adt("S", <<TypeArg(Slice(UintTy("u8")))>>),
     Adt("En", <<TypeArg(UintTy("u8"))>>),
     Dynamic(<<TraitPred("Tr", <<TypeArg(UintTy("u8"))>>), ProjectionPred("Item", Str)>>),
     Dynamic(<<TraitPred("Tr", <<>>), AutoTraitPred("Z")>>),
     Dynamic(<<AutoTraitPred("Z"), AutoTraitPred("B")>>),
     FnPtr(FnSig(<<UintTy("u8")>>, Adt("S", <<TypeArg(Str)>>), FALSE, "Normal", "Rust")),
     FnDef("r1"), Closure("c0", <<TypeArg(Adt("S", <<TypeArg(Str)>>)), TypeArg(Unit)>>),
     Tuple(<<Unrepresentable("Opaque")>>)}

Types == Level1 \cup Composites(MidTypes)

TraitRefs ==
    {<<>>, <<TraitPred("Tr", <<>>)>>, <<TraitPred("Tr", <<TypeArg(UintTy("u8"))>>)>>,
     <<TraitPred("Tr", <<TypeArg(Adt("S", <<TypeArg(Str)>>)), LifetimeArg>>)>>,
     <<TraitPred("Tr", <<TypeArg(FnDef("r1"))>>)>>,
     <<TraitPred("Tr", <<TypeArg(Unrepresentable("Bound"))>>)>>}

VTableNameKinds == {"GlobalVariable", "Type"}

VTableTypes == LeafTypes \cup Composites(CoreTypes) \cup MidTypes

\* the strings push_generic_params is handed to append to
OutputPrefixes == {<<>>, Chars("k::f"), Chars("f<u8>")}

GenericParamSubsts ==
    SubstsOf(GenericArgs) \cup {<<TypeArg(t)>> : t \in MidTypes \cup CoreTypes}

(***************************************************************************)
(* The specification: one action per public entry point, applied to an     *)
(* input of the caller's choice, and the caller taking the result.         *)
(***************************************************************************)
NoCall == [op |-> "none"]

NoResult == [status |-> "none", value |-> <<>>]

Init ==
    /\ tcx \in [is_like_msvc : BOOLEAN]
    /\ pc = "idle"
    /\ call = NoCall
    /\ result = NoResult

ComputeTypeName ==
    /\ pc = "idle"
    /\ \E t \in Types, qualified \in BOOLEAN :
          /\ call' = [op |-> "compute_debuginfo_type_name", t |-> t, qualified |-> qualified]
          /\ result' = compute_debuginfo_type_name(tcx, t, qualified)
    /\ pc' = "done"
    /\ UNCHANGED tcx

PushGenericParams ==
    /\ pc = "idle"
    /\ \E substs \in GenericParamSubsts, output \in OutputPrefixes :
          /\ call' = [op |-> "push_generic_params", substs |-> substs, output |-> output]
          /\ result' = push_generic_params(tcx, substs, output)
    /\ pc' = "done"
    /\ UNCHANGED tcx

ComputeVtableName ==
    /\ pc = "idle"
    /\ \E t \in VTableTypes, trait_ref \in TraitRefs, kind \in VTableNameKinds :
          /\ call' = [op |-> "compute_debuginfo_vtable_name", t |-> t,
                      trait_ref |-> trait_ref, kind |-> kind]
          /\ result' = compute_debuginfo_vtable_name(tcx, t, trait_ref, kind)
    /\ pc' = "done"
    /\ UNCHANGED tcx

\* pub fn push_item_name, called on a caller's String
PushItemName ==
    /\ pc = "idle"
    /\ \E def_id \in DefIds, qualified \in BOOLEAN, output \in OutputPrefixes :
          /\ call' = [op |-> "push_item_name", def_id |-> def_id,
                      qualified |-> qualified, output |-> output]
          /\ result' = Returned(push_item_name(tcx, def_id, qualified, NewState(output)))
    /\ pc' = "done"
    /\ UNCHANGED tcx

\* the caller takes the result; the encoder keeps no state between calls
Return ==
    /\ pc = "done"
    /\ pc' = "idle"
    /\ call' = NoCall
    /\ result' = NoResult
    /\ UNCHANGED tcx

Next ==
    ComputeTypeName \/ PushGenericParams \/ ComputeVtableName \/ PushItemName \/ Return

Spec == Init /\ [][Next]_vars

(***************************************************************************)
(* The helpers on their own: a closing bracket pushed onto a buffer and    *)
(* popped again, and a constant argument written to an empty buffer.       *)
(***************************************************************************)
MaxBufferLen == 3

BufferChars == {"S", "<", ">", " ", ","}

\* the contents of `output` when a closing bracket is pushed
Buffers == SeqsUpTo(BufferChars, MaxBufferLen)

\* evaluated constants carry the bits of a value of their type
ConstParams ==
    {ConstValue(IntTy("i8"), b) : b \in 0..(Pow2(8) - 1)}
    \cup {ConstValue(IntTy("i16"), b) : b \in {0, 1, 255, 256, 32767, 32768, 65534, 65535}}
    \cup {ConstValue(UintTy("u8"), b) : b \in 0..(Pow2(8) - 1)}
    \cup {ConstValue(UintTy("u16"), b) : b \in {0, 255, 256, 32767, 32768, 65535}}
    \cup {ConstParam(n, ty) : n \in {"N", "LEN"},
                              ty \in {IntTy("i8"), UintTy("u16"), Bool, Char, Adt("S", <<>>)}}
    \cup {ConstValue(Bool, b) : b \in {0, 1}}
    \cup {ConstOpaque(Adt("S", <<>>), h) : h \in {0, 2748}}

PushCloseAngleBracket ==
    /\ pc = "idle"
    /\ \E output \in Buffers :
          /\ call' = [op |-> "push_close_angle_bracket", output |-> output, pushed |-> <<>>]
          /\ result' = Returned(push_close_angle_bracket(cpp_like_debuginfo(tcx),
                                                         NewState(output)))
    /\ pc' = "pushed"
    /\ UNCHANGED tcx

PopCloseAngleBracket ==
    /\ pc = "pushed"
    /\ call' = [call EXCEPT !.pushed = result.value]
    /\ result' = Returned(pop_close_angle_bracket(NewState(result.value)))
    /\ pc' = "done"
    /\ UNCHANGED tcx

PushConstParam ==
    /\ pc = "idle"
    /\ \E ct \in ConstParams :
          /\ call' = [op |-> "push_const_param", ct |-> ct]
          /\ result' = Returned(push_const_param(tcx, ct, NewState(<<>>)))
    /\ pc' = "done"
    /\ UNCHANGED tcx

HelperNext == PushCloseAngleBracket \/ PopCloseAngleBracket \/ PushConstParam \/ Return

HelperSpec == Init /\ [][HelperNext]_vars

(***************************************************************************)
(* Properties.                                                             *)
(***************************************************************************)
TypeNameDone == pc = "done" /\ call.op = "compute_debuginfo_type_name"

GenericParamsDone == pc = "done" /\ call.op = "push_generic_params"

VtableNameDone == pc = "done" /\ call.op = "compute_debuginfo_vtable_name"

Occurrences(output, ch) == Cardinality({i \in 1..Len(output) : output[i] = ch})

\* the number of places where `pattern` occurs in `output`
OccurrencesOf(output, pattern) ==
    Cardinality({i \in 1..Len(output) :
                    /\ i + Len(pattern) - 1 <= Len(output)
                    /\ SubSeq(output, i, i + Len(pattern) - 1) = pattern})

starts_with(output, prefix) ==
    Len(output) >= Len(prefix) /\ SubSeq(output, 1, Len(prefix)) = prefix

\* The closing angle brackets of a name: every `>` but the head of the arrow
\* ` -> ` of a native function type.
ClosingAngles(output) ==
    Cardinality({i \in 1..Len(output) :
                    output[i] = ">" /\ ~(i > 1 /\ output[i - 1] = "-")})

Balanced(output) ==
    /\ Occurrences(output, "<") = ClosingAngles(output)
    /\ Occurrences(output, "(") = Occurrences(output, ")")
    /\ Occurrences(output, "[") = Occurrences(output, "]")

\* C1: every name compute_debuginfo_type_name returns has as many opening as
\* closing brackets of each kind (angle brackets, parentheses, square
\* brackets), whatever the type, `qualified` and the dialect.
C1_BracketsBalanced ==
    (TypeNameDone /\ result.status = "ok") => Balanced(result.value)

\* C2: in the C++-like dialect no returned name of the three entry points
\* holds two adjacent `>` characters.
C2_NoAdjacentCloseAngles ==
    (pc = "done" /\ cpp_like_debuginfo(tcx) /\ result.status = "ok")
        => OccurrencesOf(result.value, <<">", ">">>) = 0

\* a C++-like vtable name in which a `>` follows a `>` and was set off by a space
C2_Witness ==
    /\ VtableNameDone
    /\ cpp_like_debuginfo(tcx)
    /\ result.status = "ok"
    /\ OccurrencesOf(result.value, <<">", " ", ">">>) > 0

\* the types the encoder visits directly under `t`
TypeArgsOf(substs) ==
    {substs[i].ty : i \in {j \in 1..Len(substs) : substs[j].kind = "Type"}}

VisitedChildren(t) ==
    CASE t.kind = "Adt" -> TypeArgsOf(t.substs)
      [] t.kind = "Tuple" -> {t.component_types[i] : i \in 1..Len(t.component_types)}
      [] t.kind \in {"RawPtr", "Ref", "Array", "Slice"} -> {t.inner_type}
      [] t.kind = "Dynamic" ->
            IF Len(principal(t.trait_data)) = 0 THEN {}
            ELSE TypeArgsOf(principal(t.trait_data)[1].substs)
                 \cup {projection_bounds(t.trait_data)[i].ty :
                          i \in 1..Len(projection_bounds(t.trait_data))}
      [] t.kind \in {"FnDef", "FnPtr"} ->
            {fn_sig(t).inputs[i] : i \in 1..Len(fn_sig(t).inputs)} \cup {fn_sig(t).output}
      [] t.kind \in {"Closure", "Generator"} ->
            TypeArgsOf(SubSeq(t.substs, 1, generics_count(typeck_root_def_id(t.def_id))))
      [] OTHER -> {}

RECURSIVE VisitedUnder(_, _)
\* `t` and every type visited below it, a function type's signature entered once
VisitedUnder(t, seen) ==
    IF t \in seen THEN {t}
    ELSE {t} \cup UNION {VisitedUnder(c, seen \cup {t}) : c \in VisitedChildren(t)}

\* the function items whose signature leads back to the item
CyclicFnItems == {"r1", "r2", "r3", "r4", "r5"}

MentionsCyclicItem(t) ==
    \E u \in VisitedUnder(t, {}) : u.kind = "FnDef" /\ u.def_id \in CyclicFnItems

Placeholders(output) ==
    OccurrencesOf(output, RecursionPlaceholder(cpp_like_debuginfo(tcx)))

\* C3: compute_debuginfo_type_name returns for every type, cyclic function
\* items included, without exhausting the stack; a function item met again
\* while it is being encoded is written as the placeholder and not entered
\* (r1 is `fn() -> r1`), an item that leads back to itself at one position
\* yields the placeholder once, one that does at two positions twice, and a
\* type that mentions no cyclic item yields none.
C3_CyclesEndInPlaceholder ==
    TypeNameDone =>
        /\ result.status # "stack_overflow"
        /\ result.status = "ok" =>
             /\ call.t \in {FnDef("r1"), FnDef("r2"), FnDef("r3"), FnDef("r4")}
                    => Placeholders(result.value) = 1
             /\ call.t = FnDef("r5") => Placeholders(result.value) = 2
             /\ call.t = FnDef("r1") =>
                    result.value =
                        IF cpp_like_debuginfo(tcx)
                        THEN RecursionPlaceholder(TRUE) \o Chars(" (*)()")
                        ELSE Chars("fn() -> ") \o RecursionPlaceholder(FALSE)
             /\ ~MentionsCyclicItem(call.t) => Placeholders(result.value) = 0

\* the mutually recursive items r3 and r4 encoded from r3, the cycle cut once
C3_Witness ==
    /\ TypeNameDone
    /\ call.t = FnDef("r3")
    /\ result.status = "ok"
    /\ Placeholders(result.value) = 1

\* the item whose name `qualified` abbreviates, if the type is headed by one
HeadItem(cx, t) ==
    CASE t.kind = "Adt" -> IF is_enum(t.def) /\ cpp_like_debuginfo(cx) THEN NoParent ELSE t.def
      [] t.kind = "Foreign" -> t.def_id
      [] t.kind \in {"Closure", "Generator"} -> t.def_id
      [] t.kind = "Dynamic" ->
            IF Len(principal(t.trait_data)) = 0 THEN NoParent
            ELSE principal(t.trait_data)[1].def_id
      [] OTHER -> NoParent

\* the path of the item's parent with the `::` that follows it
PathPrefix(cx, def_id) ==
    IF def_id = NoParent \/ def_key(def_id).parent = NoParent THEN <<>>
    ELSE push_item_name(cx, def_key(def_id).parent, TRUE, NewState(<<>>)).output \o <<":", ":">>

\* `long` is `short` with `inserted` put in at one place
InsertedInto(short, inserted, long) ==
    \E i \in 0..Len(short) :
        long = SubSeq(short, 1, i) \o inserted \o SubSeq(short, i + 1, Len(short))

RECURSIVE Referent(_)
\* the type behind any pointers and references
Referent(t) == IF t.kind \in {"RawPtr", "Ref"} THEN Referent(t.inner_type) ELSE t

\* every type visited directly under `t` occurs fully qualified in `output`
ChildrenFullyQualified(cx, t, output) ==
    \A c \in VisitedChildren(t) :
        is_unit(c) \/ OccurrencesOf(output, compute_debuginfo_type_name(cx, c, TRUE).value) > 0

\* C4 as stated: the two values of `qualified` give outputs that differ at
\* most by the path prefix of the type's own item name; a pointer or a
\* reference has no item name of its own and its referent is nested, so its two
\* outputs are equal.
C4_QualifiedOnlyOutermost ==
    (TypeNameDone /\ result.status = "ok" /\ call.qualified) =>
        InsertedInto(compute_debuginfo_type_name(tcx, call.t, FALSE).value,
                     PathPrefix(tcx, HeadItem(tcx, call.t)),
                     result.value)

\* C4 amended: `qualified` passes through pointers and references to the
\* referent, and there abbreviates the referent's own item name only: the two
\* outputs differ by exactly that item's path prefix, and every type under a
\* generic argument list, a tuple, an array, a slice, a signature or a
\* projection bound is written fully qualified for both values.
C4_QualifiedReachesReferentHead ==
    (TypeNameDone /\ result.status = "ok") =>
        /\ InsertedInto(compute_debuginfo_type_name(tcx, call.t, FALSE).value,
                        PathPrefix(tcx, HeadItem(tcx, Referent(call.t))),
                        compute_debuginfo_type_name(tcx, call.t, TRUE).value)
        /\ ~MentionsCyclicItem(call.t) =>
                ChildrenFullyQualified(tcx, Referent(call.t), result.value)

\* a reference to a struct asked for unqualified: the referent's path is dropped
C4_Witness ==
    /\ TypeNameDone
    /\ call.t = Ref(Adt("S", <<>>), "Mut")
    /\ ~call.qualified
    /\ result.status = "ok"
    /\ result.value # compute_debuginfo_type_name(tcx, call.t, TRUE).value

PointerWrapper(t) ==
    CASE t.kind = "RawPtr" /\ t.mutbl = "Not" -> Chars("ptr_const$<")
      [] t.kind = "RawPtr" /\ t.mutbl = "Mut" -> Chars("ptr_mut$<")
      [] t.kind = "Ref" /\ t.mutbl = "Not" -> Chars("ref$<")
      [] t.kind = "Ref" /\ t.mutbl = "Mut" -> Chars("ref_mut$<")

Wrapped(t, referent) ==
    PointerWrapper(t) \o referent
        \o (IF ends_with(referent, <<">">>) THEN <<" ", ">">> ELSE <<">">>)

ReferentEncoding == compute_debuginfo_type_name(tcx, call.t.inner_type, call.qualified).value

PointerOrReferenceDone ==
    /\ TypeNameDone
    /\ cpp_like_debuginfo(tcx)
    /\ call.t.kind \in {"RawPtr", "Ref"}
    /\ result.status = "ok"

\* C5 as stated: in the C++-like dialect a raw pointer or a reference to a
\* slice or to str is encoded as the referent alone, and one to any other type
\* as the matching wrapper around the referent.
C5_PointerOrReferenceToSliceUnwrapped ==
    PointerOrReferenceDone =>
        result.value = IF call.t.inner_type.kind \in {"Slice", "Str"}
                       THEN ReferentEncoding
                       ELSE Wrapped(call.t, ReferentEncoding)

\* C5 amended: in the C++-like dialect only a reference to a slice or to str
\* is encoded as the referent alone; a raw pointer always gets its wrapper, and
\* so does a reference to any other type.
C5_OnlyReferenceToSliceUnwrapped ==
    PointerOrReferenceDone =>
        result.value = IF call.t.kind = "Ref" /\ call.t.inner_type.kind \in {"Slice", "Str"}
                       THEN ReferentEncoding
                       ELSE Wrapped(call.t, ReferentEncoding)

\* a raw pointer to str keeps its wrapper, a reference to str has none
C5_Witness ==
    /\ PointerOrReferenceDone
    /\ call.t.inner_type = Str
    /\ \/ call.t.kind = "RawPtr" /\ result.value = Chars("ptr_mut$<str>")
       \/ call.t.kind = "Ref" /\ result.value = Chars("str")

\* the Type and the Trait of a vtable name, built on their own
VtableType == compute_debuginfo_type_name(tcx, call.t, TRUE)

VtableTrait ==
    IF Len(call.trait_ref) = 0 THEN [status |-> "ok", value |-> <<"_">>]
    ELSE push_generic_params(tcx, call.trait_ref[1].substs,
            push_item_name(tcx, call.trait_ref[1].def_id, TRUE, NewState(<<>>)).output)

\* C6: compute_debuginfo_vtable_name returns `<Type as Trait>::{vtable}` or
\* `<Type as Trait>::{vtable_type}` in the native dialect and
\* `impl$<Type, Trait>::vtable$` or `impl$<Type, Trait>::vtable_type$` in the
\* C++-like one, the suffix chosen by `kind`; Type is the fully qualified
\* encoding of the type, Trait the fully qualified trait name and its generic
\* arguments, or `_` without a trait reference.  It returns a name exactly
\* when both parts can be encoded.
C6_VtableNameFormat ==
    VtableNameDone =>
        IF VtableType.status # "ok" \/ VtableTrait.status # "ok"
        THEN result.status = "bug"
        ELSE /\ result.status = "ok"
             /\ result.value =
                  IF cpp_like_debuginfo(tcx)
                  THEN Chars("impl$<") \o VtableType.value \o Chars(", ") \o VtableTrait.value
                       \o (IF ends_with(VtableTrait.value, <<">">>) THEN Chars(" >") ELSE Chars(">"))
                       \o (IF call.kind = "Type" THEN Chars("::vtable_type$")
                                                 ELSE Chars("::vtable$"))
                  ELSE Chars("<") \o VtableType.value \o Chars(" as ") \o VtableTrait.value
                       \o Chars(">")
                       \o (IF call.kind = "Type" THEN Chars("::{vtable_type}")
                                                 ELSE Chars("::{vtable}"))

\* the name of a vtable's type for an inherent (trait-less) vtable
C6_Witness ==
    /\ VtableNameDone
    /\ Len(call.trait_ref) = 0
    /\ call.kind = "Type"
    /\ call.t = Adt("S", <<>>)
    /\ result.status = "ok"
    /\ result.value = IF cpp_like_debuginfo(tcx)
                      THEN Chars("impl$<k::m::S, _>::vtable_type$")
                      ELSE Chars("<k::m::S as _>::{vtable_type}")

DynamicDone == TypeNameDone /\ call.t.kind = "Dynamic" /\ result.status = "ok"

\* the predicate lists that differ from `trait_data` by the order of the auto
\* traits (which follow the principal and its projection bounds)
AutoTraitsPermuted(trait_data) ==
    LET autos == auto_traits(trait_data)
        others == SelectSeq(trait_data, LAMBDA p : p.kind # "AutoTrait")
        n == Len(autos)
    IN  {others \o [i \in 1..n |-> autos[q[i]]] :
            q \in {f \in [1..n -> 1..n] : \A i, j \in 1..n : i # j => f[i] # f[j]}}

QualifiedName(def_id) == push_item_name(tcx, def_id, TRUE, NewState(<<>>)).output

Ascending(names) == \A i \in 1..(Len(names) - 1) : StringLt(names[i], names[i + 1])

RECURSIVE Joined(_, _)
Joined(names, separator) ==
    IF Len(names) = 0 THEN <<>>
    ELSE IF Len(names) = 1 THEN names[1]
    ELSE names[1] \o separator \o Joined(Tail(names), separator)

\* how a trait object's encoding ends after the last auto trait
DynamicCloser(trait_data) ==
    IF cpp_like_debuginfo(tcx) THEN <<">">>
    ELSE IF Len(principal(trait_data)) + Len(auto_traits(trait_data)) > 1 THEN <<")">>
    ELSE <<>>

\* C7: a trait object's encoding is the same for every order in which its
\* auto traits are supplied, and it ends with the auto traits' fully qualified
\* names in ascending lexicographic order, joined by ` + ` (native) or `,`.
C7_AutoTraitOrderIrrelevant ==
    DynamicDone =>
        /\ \A d \in AutoTraitsPermuted(call.t.trait_data) :
              compute_debuginfo_type_name(tcx, Dynamic(d), call.qualified) = result
        /\ \E d \in AutoTraitsPermuted(call.t.trait_data) :
              LET names == [i \in 1..Len(auto_traits(d)) |->
                               QualifiedName(auto_traits(d)[i].def_id)]
              IN  /\ Ascending(names)
                  /\ ends_with(result.value,
                               Joined(names, IF cpp_like_debuginfo(tcx)
                                             THEN <<",">> ELSE Chars(" + "))
                                   \o DynamicCloser(call.t.trait_data))

\* three auto traits supplied out of order: k::Z, k::m::B, k::Y
C7_Witness ==
    /\ DynamicDone
    /\ auto_traits(call.t.trait_data)
         = <<AutoTraitPred("Z"), AutoTraitPred("B"), AutoTraitPred("Y")>>
    /\ ends_with(result.value,
                 IF cpp_like_debuginfo(tcx) THEN Chars("k::Y,k::Z,k::m::B>")
                                            ELSE Chars("k::Y + k::Z + k::m::B)"))

TraitComponents(trait_data) == Len(principal(trait_data)) + Len(auto_traits(trait_data))

\* C8: in the native dialect a trait object is written `(dyn ...)` exactly
\* when it has more than one trait component (principal and auto traits
\* counted, projection bounds not), and `dyn ...` otherwise; in the C++-like
\* dialect it is `dyn$<...>`, never in parentheses.
C8_ParenthesesIffSeveralTraits ==
    DynamicDone =>
        IF cpp_like_debuginfo(tcx)
        THEN starts_with(result.value, Chars("dyn$<")) /\ ends_with(result.value, <<">">>)
        ELSE IF TraitComponents(call.t.trait_data) > 1
        THEN starts_with(result.value, Chars("(dyn ")) /\ ends_with(result.value, <<")">>)
        ELSE starts_with(result.value, Chars("dyn ")) /\ ~ends_with(result.value, <<")">>)

\* a lone principal with a projection bound: two predicates, one trait
C8_Witness ==
    /\ DynamicDone
    /\ ~cpp_like_debuginfo(tcx)
    /\ Len(call.t.trait_data) = 2
    /\ Len(projection_bounds(call.t.trait_data)) = 1
    /\ starts_with(result.value, Chars("dyn "))

EnumDone ==
    /\ TypeNameDone
    /\ cpp_like_debuginfo(tcx)
    /\ call.t.kind = "Adt"
    /\ is_enum(call.t.def)
    /\ result.status = "ok"

\* the layout part of an enum's C++-like name
EnumSuffix(def) ==
    LET layout == layout_variants(def)
    IN  IF layout.form = "Niche"
        THEN Chars(", ") \o Display(layout.niche.start % (2 ^ layout.tag_bits))
             \o Chars(", ") \o Display(layout.niche.end % (2 ^ layout.tag_bits))
             \o Chars(", ") \o Chars(variants(def)[layout.dataful_variant])
        ELSE IF layout.form = "Single" /\ Len(variants(def)) # 0
        THEN Chars(", ") \o Chars(variants(def)[layout.index])
        ELSE <<>>

\* C9: in the C++-like dialect an enum is `enum$<` + its qualified name + its
\* generic arguments + the layout suffix + the closing bracket, whatever
\* `qualified` is: the suffix is `, min, max, Variant` for a niche layout (the
\* niche range's ends modulo 2^tag width), `, Variant` for a single-variant
\* layout of an enum with a variant, and empty otherwise.
C9_EnumEncoding ==
    EnumDone =>
        LET body == Chars("enum$<") \o QualifiedName(call.t.def)
                    \o push_generic_params(tcx, call.t.substs, <<>>).value
                    \o EnumSuffix(call.t.def)
        IN  result.value = body \o (IF ends_with(body, <<">">>) THEN Chars(" >") ELSE Chars(">"))

\* the niche range 258..511 of Ew in a one-byte tag
C9_Witness ==
    /\ EnumDone
    /\ call.t = Adt("Ew", <<>>)
    /\ result.value = Chars("enum$<k::Ew, 2, 255, Data>")

ContainsUnrepresentable(t) ==
    \E u \in VisitedUnder(t, {}) : u.kind \in UnrepresentableKinds

\* the types a call hands to the encoder
InputTypes ==
    CASE call.op = "compute_debuginfo_type_name" -> {call.t}
      [] call.op = "push_generic_params" -> TypeArgsOf(call.substs)
      [] call.op = "compute_debuginfo_vtable_name" ->
            {call.t} \cup (IF Len(call.trait_ref) = 0 THEN {}
                           ELSE TypeArgsOf(call.trait_ref[1].substs))
      [] call.op = "push_item_name" -> {}

\* C10: a call whose input holds a type of an unrepresentable kind, at the top
\* or at any position the encoder visits, aborts with the internal error and
\* returns no string.
C10_UnrepresentableKindAborts ==
    (pc = "done" /\ \E t \in InputTypes : ContainsUnrepresentable(t)) =>
        result.status = "bug" /\ result.value = NoString

\* an opaque type two levels down, inside a tuple inside a generic argument
C10_Witness ==
    /\ TypeNameDone
    /\ call.t = Adt("S", <<TypeArg(Tuple(<<Unrepresentable("Opaque")>>))>>)
    /\ result.status = "bug"


ClosureDone ==
    TypeNameDone /\ call.t.kind \in {"Closure", "Generator"} /\ result.status = "ok"

\* the label named for each kind of closure or generator
KindLabel(kind) ==
    CASE kind = "None"         -> Chars("closure")
      [] kind = "Gen"          -> Chars("generator")
      [] kind = "AsyncBlock"   -> Chars("async_block")
      [] kind = "AsyncClosure" -> Chars("async_closure")
      [] kind = "AsyncFn"      -> Chars("async_fn")

\* `{label#N}` in the native dialect, `label$N` in the C++-like one
SpecialSegment(label, n) ==
    IF cpp_like_debuginfo(tcx)
    THEN label \o <<"$">> \o DecimalNat(n)
    ELSE <<"{">> \o label \o <<"#">> \o DecimalNat(n) \o <<"}">>

\* the fully qualified path of the item a closure is written in, and `::`
EnclosingPath(def_id) ==
    IF def_key(def_id).parent = "f" THEN Chars("k::f::")
    ELSE Chars("k::") \o SpecialSegment(Chars("impl"), 1) \o Chars("::g::")

\* the generic arguments of the enclosing function, as a generic list
EnclosingGenerics(t) ==
    push_generic_params(tcx,
        SubSeq(t.substs, 1, generics_count(typeck_root_def_id(t.def_id))), <<>>).value

ClosureName(t, qualified, label) ==
    (IF qualified THEN EnclosingPath(t.def_id) ELSE <<>>)
    \o SpecialSegment(label, def_key(t.def_id).disambiguator)
    \o EnclosingGenerics(t)

\* C11 as stated: a closure or generator type is named by the enclosing
\* item's qualified path and `::` (exactly when `qualified`), then the special
\* segment `{label#N}` / `label$N` whose label is the bare kind label
\* (closure, generator, async_block, async_closure, async_fn).
C11_ClosureLabelIsKind ==
    ClosureDone =>
        result.value = ClosureName(call.t, call.qualified,
                                   KindLabel(generator_kind(call.t.def_id)))

\* C11: a closure or generator type is named by the enclosing item's
\* qualified path and `::` (exactly when `qualified`), then the special
\* segment `{label#N}` / `label$N` whose label is the kind label followed by
\* `_env` (closure_env, generator_env, async_block_env, async_closure_env,
\* async_fn_env) and whose N is the definition's disambiguator, then the
\* enclosing function's generic arguments.
C11_ClosureLabelIsKindEnv ==
    ClosureDone =>
        result.value = ClosureName(call.t, call.qualified,
                                   KindLabel(generator_kind(call.t.def_id)) \o Chars("_env"))

\* the async closure with disambiguator 2 inside k::{impl#1}::g, qualified
C11_Witness ==
    /\ ClosureDone
    /\ call.t.def_id = "c3"
    /\ call.qualified
    /\ result.value = IF cpp_like_debuginfo(tcx)
                      THEN Chars("k::impl$1::g::async_closure_env$2")
                      ELSE Chars("k::{impl#1}::g::{async_closure_env#2}")


FnTypesUnder(t) == {u \in VisitedUnder(t, {}) : u.kind \in {"FnDef", "FnPtr"}}

\* the visited sets a call on a type under `t` may be entered with
EntryVisitedSets(t) == {{}, FnTypesUnder(t)} \cup {{w} : w \in FnTypesUnder(t)}

\* push_debuginfo_type_name entered on `u` with the visited set `visited`
EnteredWith(u, visited) ==
    push_debuginfo_type_name(tcx, u, TRUE, [NewState(<<>>) EXCEPT !.visited = visited])

\* the encoding of `a` on its own
Alone(a) == compute_debuginfo_type_name(tcx, a, TRUE).value

SiblingsDone == TypeNameDone /\ call.t \in SiblingTypes /\ result.status = "ok"

\* the encoding of two siblings `a`, `b` under S<..> or (..)
SiblingsName(t, qualified) ==
    LET cpp == cpp_like_debuginfo(tcx)
        sep == IF cpp THEN <<",">> ELSE Chars(", ")
    IN  IF t.kind = "Adt"
        THEN LET body == (IF qualified THEN Chars("k::m::S<") ELSE Chars("S<"))
                         \o Alone(t.substs[1].ty) \o sep \o Alone(t.substs[2].ty)
             IN  body \o (IF cpp /\ ends_with(body, <<">">>) THEN Chars(" >") ELSE <<">">>)
        ELSE LET body == (IF cpp THEN Chars("tuple$<") ELSE <<"(">>)
                         \o Alone(t.component_types[1]) \o sep \o Alone(t.component_types[2])
             IN  IF cpp
                 THEN body \o (IF ends_with(body, <<">">>) THEN Chars(" >") ELSE <<">">>)
                 ELSE body \o <<")">>

\* C12: every call of push_debuginfo_type_name that returns, on the input
\* type or on any type visited below it and with whatever visited set it is
\* entered, leaves the visited set as it found it; a function type that is
\* in the set on entry is written as the placeholder alone; the set is empty
\* when the top-level call returns; and two sibling function types in one
\* larger type are each encoded exactly as they are on their own.
C12_VisitedSetRestored ==
    /\ pc = "done" =>
         \A t \in InputTypes : \A u \in VisitedUnder(t, {}) : \A visited \in EntryVisitedSets(t) :
            LET returned == EnteredWith(u, visited)
            IN  returned.status = "ok" =>
                  /\ returned.visited = visited
                  /\ (u \in FnTypesUnder(t) /\ u \in visited) =>
                        returned.output = RecursionPlaceholder(cpp_like_debuginfo(tcx))
    /\ SiblingsDone => result.value = SiblingsName(call.t, call.qualified)

\* S<fn() -> u8, fn() -> u8>: the second occurrence is written in full
C12_Witness ==
    /\ SiblingsDone
    /\ call.t.kind = "Adt"
    /\ call.t.substs[1] = call.t.substs[2]
    /\ call.t.substs[1].ty.kind = "FnPtr"
    /\ call.qualified
    /\ result.value = IF cpp_like_debuginfo(tcx)
                      THEN Chars("k::m::S<u8 (*)(),u8 (*)()>")
                      ELSE Chars("k::m::S<fn() -> u8, fn() -> u8>")


\* a call all of whose input types are of representable kinds throughout
LegalCallDone == pc = "done" /\ \A t \in InputTypes : ~ContainsUnrepresentable(t)

\* C13: for every legal type descriptor, both dialects and the three entry
\* points, no assertion of pop_close_angle_bracket or pop_arg_separator
\* (called directly or through pop_auto_trait_separator) fires: the call
\* returns its string.
C13_NoAssertionFires ==
    LegalCallDone => result.status = "ok"

\* a trait object whose encoding reopens the principal's generic list for a
\* projection bound and drops the separator after the last auto trait
C13_Witness ==
    /\ LegalCallDone
    /\ TypeNameDone
    /\ call.qualified
    /\ call.t = Dynamic(<<TraitPred("Tr", <<TypeArg(UintTy("u8"))>>),
                          ProjectionPred("Item", UintTy("u8")), AutoTraitPred("Z")>>)
    /\ result.value = IF cpp_like_debuginfo(tcx)
                      THEN Chars("dyn$<k::Tr<u8,assoc$<Item,u8> >,k::Z>")
                      ELSE Chars("(dyn k::Tr<u8, Item=u8> + k::Z)")


PushPopDone == pc = "done" /\ call.op = "push_close_angle_bracket"

\* C14 as stated: for every buffer content and either dialect,
\* push_close_angle_bracket followed by pop_close_angle_bracket leaves the
\* buffer as it was before the push.
C14_PopUndoesPushOnEveryBuffer ==
    PushPopDone => (result.status = "ok" /\ result.value = call.output)

\* C14: push_close_angle_bracket followed by pop_close_angle_bracket leaves a
\* buffer that does not end with a space as it was before the push (the `>`
\* and, where the push inserted one, the space before it are removed); of a
\* buffer that ends with a space the pair also removes that space, in either
\* dialect.
C14_PopUndoesPushUnlessSpace ==
    PushPopDone =>
        /\ result.status = "ok"
        /\ result.value = IF ends_with(call.output, <<" ">>)
                          THEN SubSeq(call.output, 1, Len(call.output) - 1)
                          ELSE call.output
        /\ call.pushed = call.output
                         \o (IF cpp_like_debuginfo(tcx) /\ ends_with(call.output, <<">">>)
                             THEN Chars(" >") ELSE <<">">>)

\* `S>` becomes `S> >` and `S>` again
C14_Witness ==
    /\ PushPopDone
    /\ cpp_like_debuginfo(tcx)
    /\ call.output = Chars("S>")
    /\ call.pushed = Chars("S> >")
    /\ result.value = Chars("S>")


ConstParamDone == pc = "done" /\ call.op = "push_const_param" /\ result.status = "ok"

DecimalDigits == <<"0", "1", "2", "3", "4", "5", "6", "7", "8", "9">>

DigitValue(c) == (CHOOSE i \in 1..10 : DecimalDigits[i] = c) - 1

\* a decimal literal: an optional `-`, then digits without a leading zero
IsDecimalLiteral(output) ==
    LET digits == IF Len(output) > 0 /\ output[1] = "-" THEN Tail(output) ELSE output
    IN  /\ Len(digits) > 0
        /\ \A i \in 1..Len(digits) : \E d \in 1..10 : DecimalDigits[d] = digits[i]
        /\ Len(digits) > 1 => digits[1] # "0"
        /\ digits # <<"0">> \/ digits = output

RECURSIVE ParsedNat(_)
ParsedNat(digits) ==
    IF Len(digits) = 0 THEN 0
    ELSE 10 * ParsedNat(SubSeq(digits, 1, Len(digits) - 1)) + DigitValue(digits[Len(digits)])

\* the integer a decimal literal denotes
ParsedInt(output) ==
    IF output[1] = "-" THEN 0 - ParsedNat(Tail(output)) ELSE ParsedNat(output)

\* the width in bits of a signed integer type
SignedWidth(name) == IF name = "i8" THEN 8 ELSE 16

\* C15: push_const_param writes an evaluated constant of a signed integer
\* type of width w with bits b as the decimal literal of b if b < 2^(w-1) and
\* of b - 2^w otherwise, one of an unsigned integer type as the decimal
\* literal of b, and a bare generic parameter as the parameter's name,
\* whatever its type.
C15_ConstParamRendering ==
    ConstParamDone =>
        LET ct == call.ct
            w == SignedWidth(ct.ty.name)
        IN  /\ ct.val = "Param" => result.value = Chars(ct.name)
            /\ (ct.val = "Value" /\ ct.ty.kind = "Int") =>
                  /\ IsDecimalLiteral(result.value)
                  /\ ParsedInt(result.value)
                        = IF ct.bits < 2 ^ (w - 1) THEN ct.bits ELSE ct.bits - 2 ^ w
            /\ (ct.val = "Value" /\ ct.ty.kind = "Uint") =>
                  /\ IsDecimalLiteral(result.value)
                  /\ result.value[1] # "-"
                  /\ ParsedInt(result.value) = ct.bits

\* the bits 128 of an i8 are written as -128
C15_Witness ==
    /\ ConstParamDone
    /\ call.ct = ConstValue(IntTy("i8"), 128)
    /\ result.value = Chars("-128")

==========================================================================
